---- MODULE Spec2Model ----
(***************************************************************************)
(* Single-spin-flip Metropolis simulation of the Neel notebook             *)
(* (src/Notebooks2018/Neel.ipynb).  The notebook's global names are the    *)
(* state: the parameters N, Steps, J, B, kBT, the lattice spins, the two   *)
(* observable arrays M and MS, and the loop's names idx, i, j, dE.         *)
(*                                                                         *)
(* Numbers.  J, B and kBT are floats in the notebook; the model draws them *)
(* from integer-valued floats.  A mean is kept as the exact fraction       *)
(* <<numerator, denominator>> in lowest terms; <<0, 0>> is nan (the mean   *)
(* of an empty array).  A uniform draw in [0,1) is a fraction <<a, b>>     *)
(* with 0 <= a < b.                                                        *)
(***************************************************************************)
EXTENDS Integers, FiniteSets, Sequences, TLC

VARIABLES N, Steps, J, B, kBT, spins, M, MS, idx, i, j, dE, u, defined, pc, err, plots

vars == <<N, Steps, J, B, kBT, spins, M, MS, idx, i, j, dE, u, defined, pc, err, plots>>

params == <<N, Steps, J, B, kBT>>

(* ---------------- inputs and bounds ---------------- *)

\* Largest number of Monte Carlo steps a run of the model makes.
MaxSteps == 3

\* Lattice sizes: negative, zero, one, even, odd.
NValues == {-1, 0, 1, 2, 3}

\* Exchange energies (the notebook's -2.0, 0 for the J = 0 study, a positive one)
\* and fields.
JValues == {-2, 0, 1}

BValues == {-2, 0}

\* Thermal energies: negative, zero, 1.0 and the notebook's 3.0.
kBTValues == {-1, 0, 1, 3}

\* Values the uniform source numpy.random.random() yields, as fractions in [0,1).
UValues == {<<0, 1>>, <<1, 4>>, <<1, 2>>, <<3, 4>>}

\* live_plot is called on every PlotEvery-th step.
PlotEvery == 999

(* ---------------- arithmetic helpers ---------------- *)

Abs(x) == IF x < 0 THEN -x ELSE x

RECURSIVE GCD(_, _)
GCD(a, b) == IF b = 0 THEN a ELSE GCD(b, a % b)

NaN == <<0, 0>>

\* The float n/d; 0/0 is nan.
Rat(n, d) ==
    IF d = 0 THEN NaN
    ELSE LET g == GCD(Abs(n), d) IN <<n \div g, d \div g>>

Neg(r) == <<-r[1], r[2]>>

RECURSIVE SumTo(_, _)
\* f[0] + ... + f[k-1]
SumTo(f, k) == IF k = 0 THEN 0 ELSE f[k - 1] + SumTo(f, k - 1)

\* numpy.mean of a 1-D array a (a function on 0..len-1).
mean(a) == LET len == Cardinality(DOMAIN a) IN Rat(SumTo(a, len), len)

(* ---------------- the lattice and its observables ---------------- *)

Sites(n) == (0 .. n - 1) \X (0 .. n - 1)

\* numpy.where(r > 0.5, 1, -1) for one cell.
InitialSpin(above) == IF above THEN 1 ELSE -1

\* spins.flatten(): row-major, a function on 0..n*n-1.
flatten(S, n) == [k \in 0 .. n * n - 1 |-> S[<<k \div n, k % n>>]]

\* Lengths of the slices [::2] and [1::2] of an array of length len.
EvenLen(len) == (len + 1) \div 2

OddLen(len) == len \div 2

\* numpy broadcasting of two 1-D shapes.
Broadcastable(a, b) == a = b \/ a = 1 \/ b = 1

BroadcastLen(a, b) == IF a = 1 THEN b ELSE a

\* Whether spins.flatten()[::2] * spins.flatten()[1::2] is defined for an n x n lattice.
ProductDefined(n) == Broadcastable(EvenLen(n * n), OddLen(n * n))

\* spins.flatten()[::2] * spins.flatten()[1::2]
StaggeredProduct(S, n) ==
    LET flat == flatten(S, n)
        ne == EvenLen(n * n)
        no == OddLen(n * n)
    IN [k \in 0 .. BroadcastLen(ne, no) - 1 |->
            flat[2 * (IF ne = 1 THEN 0 ELSE k)] * flat[2 * (IF no = 1 THEN 0 ELSE k) + 1]]

\* numpy.mean(spins)
Magnetization(S, n) == mean(flatten(S, n))

\* -numpy.mean(spins.flatten()[::2] * spins.flatten()[1::2])
StaggeredOrder(S, n) == Neg(mean(StaggeredProduct(S, n)))

\* numpy.zeros((steps, 2))
zeros(steps) == [k \in 0 .. steps - 1 |-> <<0, <<0, 1>>>>]

\* The step index written one too high.
RowShifted(n, val) == <<n + 1, val>>

\* The row  idx, value  stored in M[idx] or MS[idx].
Row(n, val) == <<n, val>>

(* ---------------- energy and acceptance ---------------- *)

deltaE(S, r, c) ==
    LET Sij == S[<<r, c>>]
        Enow == -Sij * (J * (S[<<(r + 1) % N, c>>] + S[<<(r - 1) % N, c>>]
                             + S[<<r, (c + 1) % N>>] + S[<<r, (c - 1) % N>>]) + B)
    IN -2 * Enow

\* Fixed-point precision and number of series terms of the model of numpy.exp.
ExpScale == 1000000

ExpTerms == 16

RECURSIVE ExpSeries(_, _, _, _)
\* term + (p/q)*term/n + ... : the exponential series of p/q from term n on.
ExpSeries(p, q, n, term) ==
    IF n > ExpTerms \/ term = 0 THEN term
    ELSE term + ExpSeries(p, q, n + 1, (term * p) \div (q * n))

\* ExpScale * exp(p/q) for 0 < p/q, rounded down.
ExpFix(p, q) == ExpSeries(p, q, 1, ExpScale)

\* draw < exp(-p/q) for p, q > 0, i.e. a * exp(p/q) < b for draw = a/b.
\* exp(p/q) >= 1 + p/q settles the large arguments without the series.
BelowExpNeg(draw, p, q) ==
    IF draw[1] = 0 THEN TRUE
    ELSE IF draw[1] * (q + p) >= draw[2] * q THEN FALSE
    ELSE draw[1] * ExpFix(p, q) < draw[2] * ExpScale

\* numpy.random.random() < numpy.exp(-d / float(kBT)) for the draw and dE = d.
\* kBT = 0: -d/0.0 is -inf (d > 0), nan (d = 0) or +inf (d < 0), a warning, no error.
BelowBoltzmann(draw, d) ==
    IF kBT = 0 THEN d < 0
    ELSE LET x == IF kBT > 0 THEN -d ELSE d
         IN IF x >= 0 THEN TRUE ELSE BelowExpNeg(draw, -x, Abs(kBT))

\* The comparison with the Boltzmann factor turned around.
MetropolisReversed(d, draw) == d < 0 \/ ~BelowBoltzmann(draw, d)

\* (dE < 0.0) or (numpy.random.random() < numpy.exp(-dE / float(kBT)))
Metropolis(d, draw) == d < 0 \/ BelowBoltzmann(draw, d)

\* A flip written for spins stored as 0 and 1.
FlipAsBit(s) == 1 - s

\* -spins[i, j]
Flip(s) == -s

\* The flip written to the transposed site.
FlipTransposed(S, r, c) == [S EXCEPT ![<<c, r>>] = -@]

\* spins[i, j] = -spins[i, j]
FlipSite(S, r, c) == [S EXCEPT ![<<r, c>>] = Flip(@)]

(* ---------------- the notebook's cells ---------------- *)

\* The parameter cell has run; the initialization cell has not.
Init ==
    /\ N \in NValues
    /\ Steps \in 0 .. MaxSteps
    /\ J \in JValues
    /\ B \in BValues
    /\ kBT \in kBTValues
    /\ spins = <<>>
    /\ M = <<>>
    /\ MS = <<>>
    /\ idx = 0
    /\ i = 0
    /\ j = 0
    /\ dE = 0
    /\ u = <<0, 1>>
    /\ defined = {}
    /\ pc = "start"
    /\ err = "none"
    /\ plots = 0

\* The index the for loop hands out next.
NextIdx == IF "idx" \in defined THEN idx + 1 ELSE 0

\* The initialization: random spins, the two arrays, the seeding of row 0.
\* The seeded value is a one-element array, which the numpy of the notebook's
\* kernel (Python 3.6) stores as its scalar.
Initialize ==
    /\ pc = "start"
    /\ UNCHANGED <<params, idx, i, j, dE, u, plots>>
    /\ IF N < 0
       THEN \* numpy.random.random((N, N)): negative dimensions
            /\ pc' = "error"
            /\ err' = "ValueError"
            /\ UNCHANGED <<spins, M, MS, defined>>
       ELSE \E above \in [Sites(N) -> BOOLEAN] :
            LET S == [s \in Sites(N) |-> InitialSpin(above[s])]
                M1 == [zeros(Steps) EXCEPT ![0] = Row(0, Magnetization(S, N))]
            IN /\ spins' = S
               /\ defined' = {"spins", "M", "MS"}
               /\ IF Steps = 0
                  THEN \* M[0]: index 0 is out of bounds for axis 0 with size 0
                       /\ M' = zeros(Steps)
                       /\ MS' = zeros(Steps)
                       /\ pc' = "error"
                       /\ err' = "IndexError"
                  ELSE IF ~ProductDefined(N)
                  THEN \* operands could not be broadcast together
                       /\ M' = M1
                       /\ MS' = zeros(Steps)
                       /\ pc' = "error"
                       /\ err' = "ValueError"
                  ELSE /\ M' = M1
                       /\ MS' = [zeros(Steps) EXCEPT ![0] = Row(0, StaggeredOrder(S, N))]
                       /\ pc' = "loop"
                       /\ err' = "none"

\* One iteration of the for loop.
Step ==
    /\ pc = "loop"
    /\ idx' = NextIdx
    /\ UNCHANGED params
    /\ IF N <= 0
       THEN \* numpy.random.randint(0, N, 2): low >= high
            /\ pc' = "error"
            /\ err' = "ValueError"
            /\ defined' = defined \cup {"idx"}
            /\ UNCHANGED <<spins, M, MS, i, j, dE, u, plots>>
       ELSE \E r \in 0 .. N - 1, c \in 0 .. N - 1, draw \in UValues :
            LET d == deltaE(spins, r, c)
                S == IF Metropolis(d, draw) THEN FlipSite(spins, r, c) ELSE spins
            IN /\ i' = r
               /\ j' = c
               /\ dE' = d
               /\ u' = draw
               /\ spins' = S
               /\ defined' = defined \cup {"idx", "i", "j", "dE"}
               /\ M' = [M EXCEPT ![idx'] = Row(idx', Magnetization(S, N))]
               /\ IF ~ProductDefined(N)
                  THEN /\ pc' = "error"
                       /\ err' = "ValueError"
                       /\ UNCHANGED <<MS, plots>>
                  ELSE /\ MS' = [MS EXCEPT ![idx'] = Row(idx', StaggeredOrder(S, N))]
                       /\ plots' = IF idx' % PlotEvery = 0 THEN plots + 1 ELSE plots
                       /\ pc' = IF idx' + 1 < Steps THEN "loop" ELSE "done"
                       /\ err' = "none"

Next == Initialize \/ Step

Spec == Init /\ [][Next]_vars

(* ---------------- what the claims speak of ---------------- *)

\* The initialization cell has run to its end and the loop has started or ended.
Running == pc \in {"loop", "done"}

\* A loop iteration that has run to its end.
StepDone == pc = "loop" /\ pc' \in {"loop", "done"}

\* The site the iteration picked.
Picked == <<i', j'>>

\* The cells an iteration changes.
Changed == {s \in DOMAIN spins : spins'[s] # spins[s]}

\* The row written last.
LastRow == IF "idx" \in defined THEN idx ELSE 0

\* Rows of M and of MS that have been written.
WrittenM == IF "M" \in defined /\ Steps > 0 THEN 0 .. LastRow ELSE {}

WrittenMS == IF Running THEN 0 .. LastRow ELSE {}

\* Every pair of adjacent spins (periodic neighbours) has opposite sign.
AntiAligned ==
    /\ N > 0
    /\ \A s \in Sites(N) :
          /\ spins[<<(s[1] + 1) % N, s[2]>>] = -spins[s]
          /\ spins[<<s[1], (s[2] + 1) % N>>] = -spins[s]

ValidConfig == N > 0 /\ kBT > 0

(* ---------------- the claims ---------------- *)

\* C1: in every reachable state every cell of the lattice holds +1 or -1,
\* and once the lattice exists it has exactly the N x N cells.
C1_SpinsAreUpOrDown ==
    /\ \A s \in DOMAIN spins : spins[s] \in {-1, 1}
    /\ "spins" \in defined => DOMAIN spins = Sites(N)

\* A run of three steps on the 2 x 2 lattice whose second step flipped a spin
\* and whose third step did not.
C1_Witness ==
    /\ pc = "done"
    /\ N = 2
    /\ kBT = 3
    /\ Steps = 3
    /\ M[0][2] # M[1][2]
    /\ M[1][2] = M[2][2]

\* C2: after a run of Steps >= 1 steps M and MS have exactly Steps rows, and
\* row k carries step index k; during the run the rows written so far do.
C2_RowsCarryTheirIndex ==
    /\ pc = "done" /\ Steps >= 1 =>
          /\ DOMAIN M = 0 .. Steps - 1
          /\ DOMAIN MS = 0 .. Steps - 1
          /\ LastRow = Steps - 1
          /\ \A k \in 0 .. Steps - 1 : M[k][1] = k /\ MS[k][1] = k
    /\ Running => \A k \in 0 .. LastRow : M[k][1] = k /\ MS[k][1] = k

\* A finished run of MaxSteps steps.
C2_Witness == pc = "done" /\ Steps = MaxSteps /\ Steps >= 2 /\ N = 2 /\ kBT = 3

\* C3 (as claimed): no operation changes a row of M or MS that has been written.
C3_AppendOnly ==
    [][ValidConfig =>
          /\ \A k \in WrittenM : M'[k] = M[k]
          /\ \A k \in WrittenMS : MS'[k] = MS[k]]_vars

\* C4 (as claimed): with N > 0, kBT > 0 and at least one step to run, no
\* operation of the run ends in an error.
C4_NoErrorWhenValid == ValidConfig /\ Steps >= 1 => pc # "error"

\* C5 (as claimed): with Steps = 0 and a valid configuration the run completes,
\* with the lattice as initialized and each observable array empty or seeded only.
C5_ZeroStepsCompletes ==
    ValidConfig /\ Steps = 0 /\ pc # "start" =>
        /\ pc = "done"
        /\ DOMAIN spins = Sites(N)
        /\ Cardinality(DOMAIN M) <= 1
        /\ Cardinality(DOMAIN MS) <= 1

\* C6 (as claimed): the staggered order parameter recorded for a lattice whose
\* neighbouring spins are all anti-aligned is negative.
C6_NegativeWhenAntiAligned ==
    ValidConfig /\ Running /\ AntiAligned => MS[LastRow][2][1] < 0 /\ MS[LastRow][2][2] > 0

\* C7: a step with dE < 0 negates the picked spin whatever the uniform source
\* yields; a step with dE >= 0 that flips has a draw below exp(-dE / kBT).
C7_MetropolisRule ==
    [][StepDone =>
          /\ dE' = deltaE(spins, i', j')
          /\ dE' < 0 => spins'[Picked] = -spins[Picked]
          /\ dE' >= 0 /\ spins'[Picked] # spins[Picked] => BelowBoltzmann(u', dE')
          /\ dE' >= 0 /\ spins'[Picked] = spins[Picked] => ~BelowBoltzmann(u', dE')]_vars

\* A step with a negative energy delta has run while the source yielded 3/4.
C7_Witness ==
    /\ Running
    /\ "dE" \in defined
    /\ N = 2
    /\ kBT = 3
    /\ dE < 0
    /\ u = <<3, 4>>

\* C8 (as claimed): with J = 0 and B = 0 the delta is 0 and every proposed flip
\* is accepted, for every draw.
C8_ZeroCouplingAlwaysFlips ==
    [][StepDone /\ J = 0 /\ B = 0 =>
          /\ dE' = 0
          /\ spins'[Picked] = -spins[Picked]]_vars

\* C9 (as claimed): with N <= 0 or kBT <= 0 (and at least one step asked for)
\* the initialization fails, no lattice is created, no step runs and no
\* observable row is written.
C9_InvalidConfigRejected ==
    (N <= 0 \/ kBT <= 0) /\ Steps >= 1 /\ pc # "start" =>
        /\ pc = "error"
        /\ defined = {}
        /\ WrittenM = {}
        /\ plots = 0

\* C10: a step changes at most one cell: if accepted, exactly the picked cell,
\* which changes sign; if rejected, none.  The lattice keeps its N x N cells.
C10_OneCellPerStep ==
    [][pc = "loop" =>
          /\ DOMAIN spins' = DOMAIN spins
          /\ DOMAIN spins = Sites(N)
          /\ Cardinality(Changed) <= 1
          /\ \A s \in Changed : s = Picked /\ spins'[s] = -spins[s]
          /\ StepDone /\ Metropolis(dE', u') => Changed = {Picked}
          /\ StepDone /\ ~Metropolis(dE', u') => Changed = {}]_vars

\* The second step of a run has flipped an off-diagonal cell of the 2 x 2 lattice.
C10_Witness ==
    /\ Running
    /\ N = 2
    /\ kBT = 3
    /\ "i" \in defined
    /\ i # j
    /\ Steps = 2
    /\ idx = 1
    /\ M[0][2] # M[1][2]

====
